---- MODULE Spec2Model ----
(***************************************************************************)
(* Model-based diagnosis ("Diagnose This"): the hitting-set engines of     *)
(* hittingsets.py and the conflict-set extractor of conflictsets.py.       *)
(*                                                                         *)
(* Component identifiers are modelled as the integers 1..NumComps; their   *)
(* numeric order stands for the string order that sorted() uses.  A Python *)
(* list is a TLA+ sequence.                                                *)
(***************************************************************************)
EXTENDS Integers, Sequences, FiniteSets, TLC

\* ---------------------------------------------------------------- bounds
\* the number of component identifiers
NumComps == 3
\* the size of a collection of conflict sets: its number of lists plus the
\* total number of their members
MaxSize == 6
\* the size of a circuit description: two for every gate, one for every pin
\* wired to a gate output, one for every observed gate output
MaxCircuit == 7

Components == 1..NumComps

\* ------------------------------------------------------- list utilities
ToSet(s) == {s[i] : i \in 1..Len(s)}

IsDupFree(s) == \A i, j \in 1..Len(s) : i /= j => s[i] /= s[j]

\* sorted(list): insertion of x into an ascending sequence, then a fold
RECURSIVE InsertSorted(_, _)
InsertSorted(x, s) ==
    IF s = <<>> THEN <<x>>
    ELSE IF x <= Head(s) THEN <<x>> \o s
    ELSE <<Head(s)>> \o InsertSorted(x, Tail(s))

RECURSIVE sorted(_)
sorted(s) == IF s = <<>> THEN <<>> ELSE InsertSorted(Head(s), sorted(Tail(s)))

\* the content of a list of lists: the set of the sets of their members
Content(ss) == {ToSet(ss[i]) : i \in 1..Len(ss)}

\* ------------------------------------------------------------ the inputs
\* a conflict set is a set: a list that names no component twice
ConflictLists ==
    {c \in UNION {[1..l -> Components] : l \in 0..NumComps} : IsDupFree(c)}

\* the collections of exactly the given size
RECURSIVE CollectionsOfSize(_)
CollectionsOfSize(n) ==
    IF n = 0 THEN {<<>>}
    ELSE UNION {{<<c>> \o cs : cs \in CollectionsOfSize(n - 1 - Len(c))} :
                    c \in {c \in ConflictLists : Len(c) <= n - 1}}

ConflictCollections == UNION {CollectionsOfSize(n) : n \in 0..MaxSize}

\* the three registered names and one name that is not registered
HEURISTICS == {"smallest", "most_frequent", "random"}
HeuristicArgs == HEURISTICS \cup {"fastest"}

\* --------------------------------------------------------------- HSNode
HSNode(path_labels, is_solution) ==
    [path_labels |-> path_labels, is_solution |-> is_solution]

\* a variant that stops after the first child
create_first_child(node, selected_conflict_set) ==
    LET fresh == SelectSeq(selected_conflict_set,
                           LAMBDA component : component \notin ToSet(node.path_labels))
    IN  IF fresh = <<>> THEN <<>>
        ELSE <<HSNode(Append(node.path_labels, fresh[1]), FALSE)>>

\* a variant that appends to the node's own list, which every child shares
create_children_sharing(node, selected_conflict_set) ==
    LET fresh == SelectSeq(selected_conflict_set,
                           LAMBDA component : component \notin ToSet(node.path_labels))
    IN  [k \in 1..Len(fresh) |-> HSNode(node.path_labels \o fresh, FALSE)]

\* HSNode.create_children: one child per member of the selected conflict,
\* in the conflict's order, that is not already in the path
RECURSIVE create_children(_, _)
create_children(node, selected_conflict_set) ==
    IF selected_conflict_set = <<>> THEN <<>>
    ELSE LET component == Head(selected_conflict_set)
             rest == create_children(node, Tail(selected_conflict_set))
         IN  IF component \notin ToSet(node.path_labels)
             THEN <<HSNode(Append(node.path_labels, component), FALSE)>> \o rest
             ELSE rest

\* -------------------------------------------------------------- helpers
\* a variant that leaves the last conflict set out of the loop
get_every_conflict(path_labels, conflict_sets) == conflict_sets

get_uncovered_conflicts_but_last(path_labels, conflict_sets) ==
    SelectSeq(SubSeq(conflict_sets, 1, Len(conflict_sets) - 1),
              LAMBDA conflict :
                  ~\E i \in 1..Len(path_labels) : path_labels[i] \in ToSet(conflict))

\* a variant whose loop returns at its first turn
hits_conflict_by_first(path_labels, conflict_set) ==
    path_labels /= <<>> /\ path_labels[1] \in ToSet(conflict_set)

hits_conflict(path_labels, conflict_set) ==
    \E i \in 1..Len(path_labels) : path_labels[i] \in ToSet(conflict_set)

get_uncovered_conflicts(path_labels, conflict_sets) ==
    SelectSeq(conflict_sets, LAMBDA conflict : ~hits_conflict(path_labels, conflict))

\* a variant of the first loop that removes no duplicate
keep_duplicates(hitting_sets, seen) == hitting_sets

\* first loop of get_minimal_hitting_sets: keep the first list of each key,
\* the key being tuple(sorted(list))
RECURSIVE Unique(_, _)
Unique(hitting_sets, seen) ==
    IF hitting_sets = <<>> THEN <<>>
    ELSE LET key == sorted(Head(hitting_sets))
         IN  IF key \in seen
             THEN Unique(Tail(hitting_sets), seen)
             ELSE <<Head(hitting_sets)>> \o Unique(Tail(hitting_sets), seen \cup {key})

\* a variant with  <=  in the place of  <
SubsetOrEqual(a, b) == a \subseteq b

\* the strict-subset test  others_set < hitting_set_set
StrictSubset(a, b) == a \subseteq b /\ a /= b

\* a variant that removes the duplicates and keeps the supersets
get_unique_hitting_sets(hitting_sets) == Unique(hitting_sets, {})

\* a variant whose second loop compares a list with the lists before it only
get_minimal_among_earlier(hitting_sets) ==
    LET unique_hitting_sets == Unique(hitting_sets, {})
        kept == {i \in 1..Len(unique_hitting_sets) :
                    ~\E k \in 1..(i - 1) :
                        StrictSubset(ToSet(unique_hitting_sets[k]),
                                     ToSet(unique_hitting_sets[i]))}
    IN  SelectSeq(unique_hitting_sets,
            LAMBDA hitting_set :
                \E i \in kept : unique_hitting_sets[i] = hitting_set)

get_minimal_hitting_sets(hitting_sets) ==
    LET unique_hitting_sets == Unique(hitting_sets, {})
    IN  SelectSeq(unique_hitting_sets,
            LAMBDA hitting_set :
                ~\E k \in 1..Len(unique_hitting_sets) :
                    StrictSubset(ToSet(unique_hitting_sets[k]), ToSet(hitting_set)))

\* ----------------------------------------------------------- heuristics
\* a variant that keeps the last list of minimal length
select_last_smallest_conflict(uncovered_conflicts) ==
    LET i == CHOOSE i \in 1..Len(uncovered_conflicts) :
                 /\ \A j \in 1..Len(uncovered_conflicts) :
                        Len(uncovered_conflicts[i]) <= Len(uncovered_conflicts[j])
                 /\ \A j \in (i + 1)..Len(uncovered_conflicts) :
                        Len(uncovered_conflicts[j]) > Len(uncovered_conflicts[i])
    IN  uncovered_conflicts[i]

\* min(uncovered_conflicts, key=len): the first list of minimal length
select_smallest_conflict(uncovered_conflicts) ==
    LET i == CHOOSE i \in 1..Len(uncovered_conflicts) :
                 /\ \A j \in 1..Len(uncovered_conflicts) :
                        Len(uncovered_conflicts[i]) <= Len(uncovered_conflicts[j])
                 /\ \A j \in 1..(i - 1) :
                        Len(uncovered_conflicts[j]) > Len(uncovered_conflicts[i])
    IN  uncovered_conflicts[i]

\* random.choice(uncovered_conflicts): every element is a possible result
select_random_conflict(uncovered_conflicts) ==
    {uncovered_conflicts[i] : i \in 1..Len(uncovered_conflicts)}

RECURSIVE Flatten(_)
Flatten(ss) == IF ss = <<>> THEN <<>> ELSE Head(ss) \o Flatten(Tail(ss))

\* component_counts: the number of occurrences of a component in all
\* uncovered conflicts
component_counts(uncovered_conflicts, component) ==
    Cardinality({i \in 1..Len(Flatten(uncovered_conflicts)) :
                    Flatten(uncovered_conflicts)[i] = component})

\* a variant that keeps the last key with the maximal count
last_most_frequent_component(uncovered_conflicts) ==
    LET flat == Flatten(uncovered_conflicts)
        i == CHOOSE i \in 1..Len(flat) :
                 /\ \A j \in 1..Len(flat) :
                        component_counts(uncovered_conflicts, flat[j])
                            <= component_counts(uncovered_conflicts, flat[i])
                 /\ \A j \in (i + 1)..Len(flat) :
                        component_counts(uncovered_conflicts, flat[j])
                            < component_counts(uncovered_conflicts, flat[i])
    IN  flat[i]

\* max(component_counts, key=component_counts.get): the dict iterates in
\* insertion order, which is the order of first occurrence in the flattened
\* conflicts, and max returns the first key with the maximal count
most_frequent_component(uncovered_conflicts) ==
    LET flat == Flatten(uncovered_conflicts)
        i == CHOOSE i \in 1..Len(flat) :
                 /\ \A j \in 1..Len(flat) :
                        component_counts(uncovered_conflicts, flat[j])
                            <= component_counts(uncovered_conflicts, flat[i])
                 /\ \A j \in 1..(i - 1) :
                        component_counts(uncovered_conflicts, flat[j])
                            < component_counts(uncovered_conflicts, flat[i])
    IN  flat[i]

\* max() of an empty dict raises ValueError
most_frequent_raises(uncovered_conflicts) == Flatten(uncovered_conflicts) = <<>>

select_most_frequent_component_conflict(uncovered_conflicts) ==
    LET conflicts_with_most_frequent ==
            SelectSeq(uncovered_conflicts,
                LAMBDA conflict :
                    most_frequent_component(uncovered_conflicts) \in ToSet(conflict))
    IN  conflicts_with_most_frequent[1]

\* a variant of the registry with select_random_conflict under every name
heuristic_func_all_random(name, uncovered_conflicts) ==
    select_random_conflict(uncovered_conflicts)

\* heuristic_func(uncovered_conflicts) for the function registered under a
\* name: the set of the values the call can return (empty when it raises)
heuristic_func(name, uncovered_conflicts) ==
    CASE name = "smallest" -> {select_smallest_conflict(uncovered_conflicts)}
      [] name = "most_frequent" ->
            IF most_frequent_raises(uncovered_conflicts) THEN {}
            ELSE {select_most_frequent_component_conflict(uncovered_conflicts)}
      [] name = "random" -> select_random_conflict(uncovered_conflicts)

\* ---------------------------------------------------------- brute force
\* a variant that is content with one conflict set hit
hits_any(combo, conflict_sets) ==
    \E k \in 1..Len(conflict_sets) :
        \E i \in 1..Len(combo) : combo[i] \in ToSet(conflict_sets[k])

hits_all(combo, conflict_sets) ==
    \A k \in 1..Len(conflict_sets) :
        \E i \in 1..Len(combo) : combo[i] \in ToSet(conflict_sets[k])

\* a variant that may take an element again, as
\* itertools.combinations_with_replacement does
RECURSIVE combinations_with_replacement(_, _)
combinations_with_replacement(list, r) ==
    IF r = 0 THEN << <<>> >>
    ELSE IF list = <<>> THEN <<>>
    ELSE LET with == combinations_with_replacement(list, r - 1)
         IN  [i \in 1..Len(with) |-> <<Head(list)>> \o with[i]]
                 \o combinations_with_replacement(Tail(list), r)

\* itertools.combinations(list, r): the r-element subsequences of the list,
\* in lexicographic order of their positions
RECURSIVE combinations(_, _)
combinations(list, r) ==
    IF r = 0 THEN << <<>> >>
    ELSE IF Len(list) < r THEN <<>>
    ELSE LET with == combinations(Tail(list), r - 1)
         IN  [i \in 1..Len(with) |-> <<Head(list)>> \o with[i]]
                 \o combinations(Tail(list), r)

\* sorted(list(components)) for a set of components
RECURSIVE SortedList(_)
SortedList(S) ==
    IF S = {} THEN <<>>
    ELSE LET m == CHOOSE x \in S : \A y \in S : x <= y
         IN  <<m>> \o SortedList(S \ {m})

\* the loop  for size in range(1, len(components_list) + 1), from `size` on
RECURSIVE brute_force_from(_, _, _)
brute_force_from(size, components_list, conflict_sets) ==
    IF size > Len(components_list) THEN <<>>
    ELSE SelectSeq(combinations(components_list, size),
                   LAMBDA combo : hits_all(combo, conflict_sets))
             \o brute_force_from(size + 1, components_list, conflict_sets)

brute_force_hitting_sets(conflict_sets) ==
    LET components == UNION {ToSet(conflict_sets[k]) : k \in 1..Len(conflict_sets)}
        components_list == SortedList(components)
    IN  brute_force_from(1, components_list, conflict_sets)

\* ------------------------------------------------- the circuit (loader)
\* A circuit file lists gates; gate i has a kind and two inputs, each either
\* an observed literal, <<"lit", 0>> or <<"lit", 1>>, or the output of a
\* gate, <<"out", j>>.  Gates are numbered in the order of the COMPONENTS
\* section.  The circuits considered are combinational: a gate reads
\* outputs of gates listed before it only; and since the three gate
\* functions are symmetric, IN1 is the input of the lower rank.
GateKinds == {"ANDG", "ORG", "XORG"}

Literal(v) == <<"lit", v>>
OutOf(j) == <<"out", j>>
Sources(i) == {Literal(0), Literal(1)} \cup {OutOf(j) : j \in 1..(i - 1)}
Rank(src) == IF src[1] = "lit" THEN src[2] ELSE src[2] + 1

GateDescriptions(i) ==
    {g \in [kind : GateKinds, in1 : Sources(i), in2 : Sources(i)] :
        Rank(g.in1) <= Rank(g.in2)}

Wires(g) == (IF g.in1[1] = "out" THEN 1 ELSE 0) + (IF g.in2[1] = "out" THEN 1 ELSE 0)

RECURSIVE CircuitCost(_)
CircuitCost(c) == IF c = <<>> THEN 0 ELSE 2 + Wires(Head(c)) + CircuitCost(Tail(c))

\* the circuits of n gates whose cost is within the budget
RECURSIVE CircuitsOf(_, _)
CircuitsOf(n, budget) ==
    IF n = 0 THEN {<<>>}
    ELSE UNION {{Append(c, g) : c \in CircuitsOf(n - 1, budget - 2 - wires),
                                g \in {g \in GateDescriptions(n) : Wires(g) = wires}} :
                   wires \in {wires \in 0..2 : 2 * n + wires <= budget}}

Circuits == UNION {CircuitsOf(n, MaxCircuit) : n \in 0..(MaxCircuit \div 2)}

\* the OUTOBSERVATIONS section: at most one observed value per gate output,
\* as a set of pairs <<gate, value>>, of at most `budget` pairs
OutObservations(n, budget) ==
    UNION {{{<<j, f[j]>> : j \in D} : f \in [D -> {0, 1}]} :
              D \in {D \in SUBSET (1..n) : Cardinality(D) <= budget}}

\* ------------------------------------------------- the solver's language
\* The Z3 constants: IN1(X)/IN2(X) of a literal pin (in_variables), X_gate,
\* the output of gate X (comps), and X, its fault flag (all_gates).
InVar(i, pin) == <<"in", i, pin>>
OutVar(i) == <<"out", i>>
FlagVar(i) == <<"flag", i>>

\* an assertion is  var == value  or  Or(fault_flag, gate_out == logic_expr)
Eq(var, value) == [op |-> "eq", var |-> var, value |-> value, gate |-> 0]

\* faulted(gate_out, logic_expr, fault_flag), for the gate of that index
faulted(i) == [op |-> "faulted", var |-> OutVar(i), value |-> FALSE, gate |-> i]

\* make_fault_assumptions: one assertion per gate, in the gates' order
make_fault_assumptions(c) == [i \in 1..Len(c) |-> faulted(i)]

\* a variant that stops after the OBSERVATIONS section
extract_in_observations(c, out_obs) ==
    {Eq(InVar(i, 1), c[i].in1[2] = 1) : i \in {i \in 1..Len(c) : c[i].in1[1] = "lit"}}
        \cup {Eq(InVar(i, 2), c[i].in2[2] = 1) : i \in {i \in 1..Len(c) : c[i].in2[1] = "lit"}}

\* extract_observations: IN(X) == value for every literal pin, then
\* X_gate == value for every observed output
extract_observations(c, out_obs) ==
    {Eq(InVar(i, 1), c[i].in1[2] = 1) : i \in {i \in 1..Len(c) : c[i].in1[1] = "lit"}}
        \cup {Eq(InVar(i, 2), c[i].in2[2] = 1) : i \in {i \in 1..Len(c) : c[i].in2[1] = "lit"}}
        \cup {Eq(OutVar(o[1]), o[2] = 1) : o \in out_obs}

\* And, Or, Xor
Logic(kind, a, b) ==
    CASE kind = "ANDG" -> a /\ b
      [] kind = "ORG" -> a \/ b
      [] kind = "XORG" -> a /= b

\* the Z3 expression of a pin: its in-variable or the output of a gate
PinVar(c, i, pin) ==
    LET src == IF pin = 1 THEN c[i].in1 ELSE c[i].in2
    IN  IF src[1] = "lit" THEN InVar(i, pin) ELSE OutVar(src[2])

SolverVars(c) ==
    {OutVar(i) : i \in 1..Len(c)} \cup {FlagVar(i) : i \in 1..Len(c)}
        \cup {InVar(i, 1) : i \in {i \in 1..Len(c) : c[i].in1[1] = "lit"}}
        \cup {InVar(i, 2) : i \in {i \in 1..Len(c) : c[i].in2[1] = "lit"}}

\* the constants the unit assertions  var == value  fix to a value
FixedTo(assertions, value) ==
    {a.var : a \in {a \in assertions : a.op = "eq" /\ a.value = value}}

\* the value of a constant: the one a unit assertion fixes, else the one
\* the assignment f of the remaining constants gives
ValueOf(fixed_true, f, var) ==
    IF var \in fixed_true THEN TRUE
    ELSE IF var \in DOMAIN f THEN f[var]
    ELSE FALSE

\* a variant without the fault flag:  gate_out == gate(input_a, input_b)
HoldsUnflagged(c, i, fixed_true, f) ==
    ValueOf(fixed_true, f, OutVar(i)) =
        Logic(c[i].kind, ValueOf(fixed_true, f, PinVar(c, i, 1)),
                         ValueOf(fixed_true, f, PinVar(c, i, 2)))

\* a variant with the flag negated:  Or(Not(fault_flag), gate_out == ...)
HoldsWhenFlagged(c, i, fixed_true, f) ==
    ~ValueOf(fixed_true, f, FlagVar(i))
        \/ (ValueOf(fixed_true, f, OutVar(i)) =
               Logic(c[i].kind, ValueOf(fixed_true, f, PinVar(c, i, 1)),
                                ValueOf(fixed_true, f, PinVar(c, i, 2))))

\* the truth of  Or(fault_flag, gate_out == gate(input_a, input_b))
HoldsFaulted(c, i, fixed_true, f) ==
    ValueOf(fixed_true, f, FlagVar(i))
        \/ (ValueOf(fixed_true, f, OutVar(i)) =
               Logic(c[i].kind, ValueOf(fixed_true, f, PinVar(c, i, 1)),
                                ValueOf(fixed_true, f, PinVar(c, i, 2))))

\* s.check(): sat when some assignment of the constants satisfies every
\* assertion held: the unit assertions must not contradict each other, and
\* some assignment of the constants they leave free must satisfy the rest
check(c, assertions) ==
    LET fixed_true == FixedTo(assertions, TRUE)
        fixed_false == FixedTo(assertions, FALSE)
        free == SolverVars(c) \ (fixed_true \cup fixed_false)
    IN  IF fixed_true \cap fixed_false /= {} THEN "unsat"
        ELSE IF \E f \in [free -> BOOLEAN] :
                    \A a \in assertions :
                        a.op = "faulted" => HoldsFaulted(c, a.gate, fixed_true, f)
        THEN "sat" ELSE "unsat"

\* ------------------------------------------- the conflict-set extractor
\* powerset(s): the non-empty combinations of s, by increasing size
RECURSIVE powerset_from(_, _)
powerset_from(r, list) ==
    IF r > Len(list) THEN <<>>
    ELSE combinations(list, r) \o powerset_from(r + 1, list)

\* a variant whose sizes start at 0
powerset_from_zero(list) == powerset_from(0, list)

powerset(list) == powerset_from(1, list)

\* a variant of the reset that keeps what the solver holds
reset_nothing(assertions) == assertions

\* s.reset(): the solver holds no assertion afterwards
reset(assertions) == {}

\* all_gates, as the list of the gates' indices
all_gates(c) == [i \in 1..Len(c) |-> i]

\* a variant that adds  g == False  in both branches
candidate_assertions_all_false(c, out_obs, healthy_combo) ==
    ToSet(make_fault_assumptions(c)) \cup extract_observations(c, out_obs)
        \cup {Eq(FlagVar(g), FALSE) : g \in 1..Len(c)}

\* a variant with the two flag values exchanged
candidate_assertions_exchanged(c, out_obs, healthy_combo) ==
    ToSet(make_fault_assumptions(c)) \cup extract_observations(c, out_obs)
        \cup {Eq(FlagVar(g), g \in ToSet(healthy_combo)) : g \in 1..Len(c)}

\* the assertions added for one candidate: the fault assumptions, the
\* observations, and a flag value for every gate
candidate_assertions(c, out_obs, healthy_combo) ==
    ToSet(make_fault_assumptions(c)) \cup extract_observations(c, out_obs)
        \cup {Eq(FlagVar(g), ~(g \in ToSet(healthy_combo))) : g \in 1..Len(c)}

\* a variant that keeps every recorded set
keep_all_recorded(recorded) == recorded

\* a variant with  >=  in the place of  >
minimal_conflict_filter_nonstrict(recorded) ==
    SelectSeq(recorded,
        LAMBDA cs : \A k \in 1..Len(recorded) : ~SubsetOrEqual(recorded[k], cs))

\* the filter of retrieve_conflict_sets: the recorded sets that are a strict
\* superset of no recorded set, in the order recorded
minimal_conflict_filter(recorded) ==
    SelectSeq(recorded,
        LAMBDA cs : \A k \in 1..Len(recorded) : ~StrictSubset(recorded[k], cs))

\* list(cs): the members of a set in some order
ListsOf(S) ==
    {l \in [1..Cardinality(S) -> S] : ToSet(l) = S}

\* the lists of lists that list, position by position, the sets of a list
RECURSIVE ListingsOf(_)
ListingsOf(sets) ==
    IF sets = <<>> THEN {<<>>}
    ELSE {<<l>> \o rest : l \in ListsOf(Head(sets)), rest \in ListingsOf(Tail(sets))}

\* ---------------------------------------------------------------- state
VARIABLES
    conflict_sets,          \* the argument: a list of conflict sets (lists)
    heuristic,              \* the argument: the heuristic name
    pc,                     \* run_hitting_set_algorithm: "idle", "search",
                            \*   "returned", or "raised" (an exception left it);
                            \*   main.py before the call: "collect", and
                            \*   "works_correctly" when it makes none;
                            \*   get_minimal_hitting_sets on its own: "filter",
                            \*   "filtered"
    stack,                  \* the nodes whose hs_tree_recursive call is pending,
                            \*   in the order of the depth-first recursion
    hitting_sets,           \* the list `solutions` shared by the recursion
    visit_count,            \* visit_count[0]
    last_visit,             \* the latest call of hs_tree_recursive: its node as
                            \*   the call left it, the conflict selected and
                            \*   the children created
    children_created,       \* the number of HSNode objects create_children
                            \*   has made in this search
    branches,               \* the nodes whose hs_tree_recursive call is pending
                            \*   when the children are explored as independent
                            \*   branches, in no order
    minimal_hitting_sets,   \* the second component of the returned tuple
    earlier,                \* what an earlier call on the same arguments returned
    bf,                     \* what run_brute_force_algorithm returned
    circuit,                \* the loaded circuit: the list of its gates
    out_observations,       \* the loaded observations of gate outputs
    cs_pc,                  \* retrieve_conflict_sets: "idle", "loop", "returned"
    candidates,             \* the candidates the loop has still to take from
                            \*   powerset(self.all_gates)
    queries,                \* the number of s.check() calls made
    queried,                \* the candidates of the s.check() calls made, in
                            \*   the order of the calls
    recorded,               \* the list conflict_sets of retrieve_conflict_sets
    solver,                 \* the assertions the Solver s holds
    last_check,             \* the candidate, assertions and verdict of the
                            \*   latest s.check()
    minimal_conflicts       \* the list retrieve_conflict_sets returned

hs_vars == <<conflict_sets, heuristic, pc, stack, hitting_sets, visit_count,
             last_visit, children_created, branches,
             minimal_hitting_sets, earlier, bf>>

cs_vars == <<circuit, out_observations, cs_pc, candidates, queries, queried,
             recorded, solver, last_check, minimal_conflicts>>

vars == <<hs_vars, cs_vars>>

NoResult == [returned |-> FALSE, hitting_sets |-> <<>>,
             minimal_hitting_sets |-> <<>>, nodes_visited |-> 0]

NoVisit == [node |-> HSNode(<<>>, FALSE), entered |-> FALSE,
            selected_conflict |-> <<>>, children |-> <<>>]

NoCheck == [healthy_combo |-> <<>>, assertions |-> {}, verdict |-> "none"]

\* no call of the hitting-set engines has been made
HsIdle ==
    /\ pc = "idle"
    /\ stack = <<>>
    /\ hitting_sets = <<>>
    /\ visit_count = 0
    /\ last_visit = NoVisit
    /\ children_created = 0
    /\ branches = {}
    /\ minimal_hitting_sets = <<>>
    /\ earlier = NoResult
    /\ bf = NoResult

\* no call of retrieve_conflict_sets has been made
CsIdle ==
    /\ cs_pc = "idle"
    /\ candidates = <<>>
    /\ queries = 0
    /\ queried = <<>>
    /\ recorded = <<>>
    /\ solver = {}
    /\ last_check = NoCheck
    /\ minimal_conflicts = <<>>

\* the hitting-set engines called on a collection of conflict sets
Init ==
    /\ conflict_sets \in ConflictCollections
    /\ heuristic \in HeuristicArgs
    /\ HsIdle
    /\ circuit = <<>>
    /\ out_observations = {}
    /\ CsIdle

\* a variant of the lookup that falls back to a default and never raises
lookup_never_raises(name) == FALSE

\* HEURISTICS[heuristic] raises KeyError for a name that is not a key
lookup_raises(name) == name \notin HEURISTICS

\* a variant that leaves the counter alone
count_nothing(count) == count

\* a variant that counts a node on entry and again on return
count_visit_twice(count) == count + 2

\* visit_count[0] += 1
count_visit(count) == count + 1

\* run_hitting_set_algorithm up to the first call of hs_tree_recursive: the
\* lookup HEURISTICS[heuristic] raises KeyError for an unregistered name;
\* otherwise the search starts at HSNode([]) with empty solutions and count 0.
begin_search ==
    /\ IF lookup_raises(heuristic)
       THEN /\ pc' = "raised"
            /\ UNCHANGED <<stack, hitting_sets, visit_count, last_visit,
                   children_created, branches, minimal_hitting_sets>>
       ELSE /\ pc' = "search"
            /\ stack' = <<HSNode(<<>>, FALSE)>>
            /\ hitting_sets' = <<>>
            /\ visit_count' = 0
            /\ last_visit' = NoVisit
            /\ children_created' = 0
            /\ branches' = branches
            /\ minimal_hitting_sets' = <<>>
    /\ UNCHANGED <<conflict_sets, heuristic, bf, cs_vars>>

\* the call of run_hitting_set_algorithm
run_hitting_set_algorithm ==
    /\ pc = "idle"
    /\ earlier' = earlier
    /\ begin_search

\* a second call on the same arguments, which keeps what the first one
\* returned
run_hitting_set_algorithm_again ==
    /\ pc = "returned" /\ ~earlier.returned
    /\ earlier' = [returned |-> TRUE, hitting_sets |-> hitting_sets,
                   minimal_hitting_sets |-> minimal_hitting_sets,
                   nodes_visited |-> visit_count]
    /\ begin_search

\* a variant that compares the lengths and not the members
is_pruned_by_length(solutions, path_labels) ==
    \E k \in 1..Len(solutions) : Len(solutions[k]) <= Len(path_labels)

\* the pruning test: some recorded solution is a subset of the path
is_pruned(solutions, path_labels) ==
    \E k \in 1..Len(solutions) : ToSet(solutions[k]) \subseteq ToSet(path_labels)

\* HSNode.set_solution
set_solution(node) == HSNode(node.path_labels, TRUE)

\* what a call of hs_tree_recursive did: the node as the call left it, the
\* conflict the heuristic selected and the children made from it
Visit(node, selected_conflict, children) ==
    [node |-> node, entered |-> TRUE,
     selected_conflict |-> selected_conflict, children |-> children]

\* one call of hs_tree_recursive on the node on top of the stack, up to its
\* return or to the first recursive call (the children wait on the stack)
hs_tree_recursive ==
    /\ pc = "search"
    /\ stack /= <<>>
    /\ LET node == Head(stack)
           uncovered_conflicts == get_uncovered_conflicts(node.path_labels, conflict_sets)
       IN  /\ visit_count' = count_visit(visit_count)
           /\ IF uncovered_conflicts = <<>>
              THEN \* base case: set_solution, record a copy of the path
                   /\ hitting_sets' = Append(hitting_sets, node.path_labels)
                   /\ stack' = Tail(stack)
                   /\ pc' = pc
                   /\ last_visit' = Visit(set_solution(node), <<>>, <<>>)
                   /\ children_created' = children_created
              ELSE IF is_pruned(hitting_sets, node.path_labels)
              THEN /\ stack' = Tail(stack)
                   /\ last_visit' = Visit(node, <<>>, <<>>)
                   /\ UNCHANGED <<hitting_sets, pc, children_created>>
              ELSE IF heuristic_func(heuristic, uncovered_conflicts) = {}
              THEN \* the heuristic raised: the exception unwinds every call
                   /\ pc' = "raised"
                   /\ last_visit' = Visit(node, <<>>, <<>>)
                   /\ UNCHANGED <<stack, hitting_sets, children_created>>
              ELSE \E selected_conflict \in heuristic_func(heuristic, uncovered_conflicts) :
                       LET children == create_children(node, selected_conflict)
                       IN  /\ stack' = children \o Tail(stack)
                           /\ last_visit' = Visit(node, selected_conflict, children)
                           /\ children_created' = children_created + Len(children)
                           /\ UNCHANGED <<hitting_sets, pc>>
    /\ UNCHANGED <<conflict_sets, heuristic, minimal_hitting_sets, earlier, bf, branches,
                   cs_vars>>

\* run_hitting_set_algorithm after the recursion has unwound: the filter and
\* the return of the tuple
return_hitting_sets ==
    /\ pc = "search"
    /\ stack = <<>>
    /\ minimal_hitting_sets' = get_minimal_hitting_sets(hitting_sets)
    /\ pc' = "returned"
    /\ UNCHANGED <<conflict_sets, heuristic, stack, hitting_sets, visit_count, last_visit,
                   children_created, branches, earlier,
                   bf, cs_vars>>

\* run_brute_force_algorithm on the same conflict sets; the callers are
\* single-threaded and call the engines one after the other, so the call is
\* placed after the end of the tree search
run_brute_force_algorithm ==
    /\ pc \in {"returned", "raised"}
    /\ ~bf.returned
    /\ bf' = [returned |-> TRUE,
              hitting_sets |-> brute_force_hitting_sets(conflict_sets),
              minimal_hitting_sets |->
                  get_minimal_hitting_sets(brute_force_hitting_sets(conflict_sets)),
              nodes_visited |-> 0]
    /\ UNCHANGED <<conflict_sets, heuristic, pc, stack, hitting_sets, visit_count, last_visit,
                   children_created, branches,
                   minimal_hitting_sets, earlier, cs_vars>>

Next ==
    \/ run_hitting_set_algorithm
    \/ run_hitting_set_algorithm_again
    \/ hs_tree_recursive
    \/ return_hitting_sets
    \/ run_brute_force_algorithm

Spec == Init /\ [][Next]_vars

\* one call of run_hitting_set_algorithm from its start to its return
NextRun ==
    \/ run_hitting_set_algorithm
    \/ hs_tree_recursive
    \/ return_hitting_sets

\* the interpreter runs a started call to its end: the one thread executes
\* the next step of the call, which is the next call of the recursion or,
\* after the last one, the filter and the return
SpecRun ==
    /\ Init
    /\ [][NextRun]_vars
    /\ WF_vars(hs_tree_recursive \/ return_hitting_sets)

\* --------------------------- the children explored as independent branches
\* a variant in which an append that races with another one takes the slot
\* of that one, whose solution is lost
append_over_last(solutions, path_labels) ==
    IF solutions = <<>> THEN <<path_labels>>
    ELSE [solutions EXCEPT ![Len(solutions)] = path_labels]

\* solutions.append(node.path_labels.copy()), one append at a time
append_solution(solutions, path_labels) == Append(solutions, path_labels)

\* after a sequential call has returned, whose result is kept, the same
\* arguments are searched again from HSNode([]) with the calls of
\* hs_tree_recursive on the children run as independent branches
run_concurrently ==
    /\ pc = "returned" /\ ~earlier.returned
    /\ earlier' = [returned |-> TRUE, hitting_sets |-> hitting_sets,
                   minimal_hitting_sets |-> minimal_hitting_sets,
                   nodes_visited |-> visit_count]
    /\ pc' = "branches"
    /\ branches' = {HSNode(<<>>, FALSE)}
    /\ hitting_sets' = <<>>
    /\ visit_count' = 0
    /\ minimal_hitting_sets' = <<>>
    /\ UNCHANGED <<conflict_sets, heuristic, stack, last_visit, children_created, bf,
                   cs_vars>>

\* the body of hs_tree_recursive on any pending node: the base case appends
\* to the shared list; the pruning loop reads the list as it was at some
\* earlier moment, a prefix of what is recorded by now; the children become
\* pending branches instead of being called in turn
explore_branch ==
    /\ pc = "branches"
    /\ \E node \in branches, seen \in 0..Len(hitting_sets) :
           LET uncovered_conflicts ==
                   get_uncovered_conflicts(node.path_labels, conflict_sets)
               solutions == SubSeq(hitting_sets, 1, seen)
           IN  /\ visit_count' = count_visit(visit_count)
               /\ IF uncovered_conflicts = <<>>
                  THEN /\ hitting_sets' = append_solution(hitting_sets, node.path_labels)
                       /\ branches' = branches \ {node}
                       /\ pc' = pc
                  ELSE IF is_pruned(solutions, node.path_labels)
                  THEN /\ branches' = branches \ {node}
                       /\ UNCHANGED <<hitting_sets, pc>>
                  ELSE IF heuristic_func(heuristic, uncovered_conflicts) = {}
                  THEN /\ pc' = "raised"
                       /\ UNCHANGED <<branches, hitting_sets>>
                  ELSE \E selected_conflict \in
                               heuristic_func(heuristic, uncovered_conflicts) :
                           /\ branches' = (branches \ {node})
                                  \cup ToSet(create_children(node, selected_conflict))
                           /\ UNCHANGED <<hitting_sets, pc>>
    /\ UNCHANGED <<conflict_sets, heuristic, stack, last_visit, children_created,
                   minimal_hitting_sets, earlier, bf, cs_vars>>

\* every branch has ended: the filter and the return of the tuple
join_branches ==
    /\ pc = "branches"
    /\ branches = {}
    /\ minimal_hitting_sets' = get_minimal_hitting_sets(hitting_sets)
    /\ pc' = "joined"
    /\ UNCHANGED <<conflict_sets, heuristic, stack, hitting_sets, visit_count, last_visit,
                   children_created, branches, earlier, bf, cs_vars>>

NextConcurrent ==
    \/ run_hitting_set_algorithm
    \/ hs_tree_recursive
    \/ return_hitting_sets
    \/ run_concurrently
    \/ explore_branch
    \/ join_branches

SpecConcurrent == Init /\ [][NextConcurrent]_vars

\* ------------------------------------ retrieve_conflict_sets, step by step
\* the extractor called on a loaded circuit
InitCS ==
    /\ circuit \in Circuits
    /\ out_observations \in
           OutObservations(Len(circuit), MaxCircuit - CircuitCost(circuit))
    /\ CsIdle
    /\ conflict_sets = <<>>
    /\ heuristic = "smallest"
    /\ HsIdle

\* conflict_sets = [] and s = Solver()
retrieve_conflict_sets ==
    /\ cs_pc = "idle"
    /\ cs_pc' = "loop"
    /\ recorded' = <<>>
    /\ solver' = {}
    /\ candidates' = powerset(all_gates(circuit))
    /\ queries' = 0
    /\ queried' = <<>>
    /\ UNCHANGED <<circuit, out_observations, last_check, minimal_conflicts, hs_vars>>

\* one turn of the loop over powerset(all_gates): the solver is given the
\* candidate's assertions, checked, and reset
check_candidate ==
    /\ cs_pc = "loop"
    /\ candidates /= <<>>
    /\ LET healthy_combo == Head(candidates)
           held == solver \cup candidate_assertions(circuit, out_observations, healthy_combo)
           verdict == check(circuit, held)
       IN  /\ last_check' = [healthy_combo |-> healthy_combo, assertions |-> held,
                             verdict |-> verdict]
           /\ recorded' = IF verdict = "unsat"
                          THEN Append(recorded, ToSet(healthy_combo))
                          ELSE recorded
           /\ solver' = reset(held)
           /\ queried' = Append(queried, healthy_combo)
    /\ candidates' = Tail(candidates)
    /\ queries' = queries + 1
    /\ UNCHANGED <<circuit, out_observations, cs_pc, minimal_conflicts, hs_vars>>

\* after the loop: the minimality filter, and every set turned into a list
\* of names
return_conflict_sets ==
    /\ cs_pc = "loop"
    /\ candidates = <<>>
    /\ minimal_conflicts' \in ListingsOf(minimal_conflict_filter(recorded))
    /\ cs_pc' = "returned"
    /\ UNCHANGED <<circuit, out_observations, candidates, queries, queried, recorded,
                   solver, last_check, hs_vars>>

NextCS ==
    \/ retrieve_conflict_sets
    \/ check_candidate
    \/ return_conflict_sets

SpecCS == InitCS /\ [][NextCS]_vars

\* the loop over powerset(all_gates) alone, up to the filter
NextLoop ==
    \/ retrieve_conflict_sets
    \/ check_candidate

SpecLoop == InitCS /\ [][NextLoop]_vars

\* ------------------------------------------------- main.py, end to end
\* main.py about to collect the conflict sets of a loaded circuit
InitMain ==
    /\ circuit \in Circuits
    /\ out_observations \in
           OutObservations(Len(circuit), MaxCircuit - CircuitCost(circuit))
    /\ CsIdle
    /\ conflict_sets = <<>>
    /\ heuristic = "smallest"
    /\ pc = "collect"
    /\ stack = <<>>
    /\ hitting_sets = <<>>
    /\ visit_count = 0
    /\ last_visit = NoVisit
    /\ children_created = 0
    /\ branches = {}
    /\ minimal_hitting_sets = <<>>
    /\ earlier = NoResult
    /\ bf = NoResult

\* conflict_sets = csr.retrieve_conflict_sets() has returned: with no
\* conflict set main prints that the circuit works correctly, and otherwise
\* it calls an engine on them, with the HEURISTIC that is configured
collect_conflict_sets ==
    /\ pc = "collect"
    /\ cs_pc = "returned"
    /\ conflict_sets' = minimal_conflicts
    /\ IF Len(minimal_conflicts) = 0
       THEN pc' = "works_correctly" /\ heuristic' = heuristic
       ELSE pc' = "idle" /\ heuristic' \in HEURISTICS
    /\ UNCHANGED <<stack, hitting_sets, visit_count, last_visit,
                   children_created, branches, minimal_hitting_sets, earlier, bf,
                   cs_vars>>

NextMain ==
    \/ retrieve_conflict_sets
    \/ check_candidate
    \/ return_conflict_sets
    \/ collect_conflict_sets
    \/ run_hitting_set_algorithm
    \/ hs_tree_recursive
    \/ return_hitting_sets
    \/ run_brute_force_algorithm

SpecMain == InitMain /\ [][NextMain]_vars

\* ------------------------------------- the minimality filters, on their own
\* [set(l) for l in lists]
SetsOf(lists) == [i \in 1..Len(lists) |-> ToSet(lists[i])]

\* the collections of each content
CollectionsByContent ==
    [content \in {Content(h) : h \in ConflictCollections} |->
        {h \in ConflictCollections : Content(h) = content}]

\* the collections of the content of a given one: the same sets, in any
\* order, any number of times, their members listed in any order
SameContentCollections(lists) == CollectionsByContent[Content(lists)]

\* get_minimal_hitting_sets about to be called on a collection of lists that
\* name no component twice
FilterInput ==
    /\ hitting_sets \in ConflictCollections
    /\ pc = "filter"
    /\ conflict_sets = <<>>
    /\ heuristic = "smallest"
    /\ stack = <<>>
    /\ visit_count = 0
    /\ last_visit = NoVisit
    /\ children_created = 0
    /\ branches = {}
    /\ minimal_hitting_sets = <<>>
    /\ earlier = NoResult
    /\ bf = NoResult
    /\ circuit = <<>>
    /\ out_observations = {}

InitFilter == FilterInput /\ CsIdle

\* the same, with retrieve_conflict_sets after its loop, the sets of the
\* collection being the list it recorded
InitBothFilters ==
    /\ FilterInput
    /\ cs_pc = "loop"
    /\ candidates = <<>>
    /\ queries = 0
    /\ queried = <<>>
    /\ recorded = SetsOf(hitting_sets)
    /\ solver = {}
    /\ last_check = NoCheck
    /\ minimal_conflicts = <<>>

\* minimal_hitting_sets = get_minimal_hitting_sets(hitting_sets)
call_get_minimal_hitting_sets ==
    /\ pc = "filter"
    /\ minimal_hitting_sets' = get_minimal_hitting_sets(hitting_sets)
    /\ pc' = "filtered"
    /\ UNCHANGED <<conflict_sets, heuristic, stack, hitting_sets, visit_count, last_visit,
                   children_created, branches, earlier,
                   bf, cs_vars>>

\* a further call, on a collection of the same content; what the first call
\* returned is kept in `earlier`
call_with_same_content ==
    /\ pc = "filtered"
    /\ ~earlier.returned
    /\ earlier' = [returned |-> TRUE, hitting_sets |-> hitting_sets,
                   minimal_hitting_sets |-> minimal_hitting_sets,
                   nodes_visited |-> 0]
    /\ hitting_sets' \in SameContentCollections(hitting_sets)
    /\ minimal_hitting_sets' = <<>>
    /\ pc' = "filter"
    /\ UNCHANGED <<conflict_sets, heuristic, stack, visit_count, last_visit,
                   children_created, branches, bf, cs_vars>>

NextFilter ==
    \/ call_get_minimal_hitting_sets
    \/ call_with_same_content

SpecFilter == InitFilter /\ [][NextFilter]_vars

NextBothFilters ==
    \/ call_get_minimal_hitting_sets
    \/ return_conflict_sets

SpecBothFilters == InitBothFilters /\ [][NextBothFilters]_vars

\* ------------------------------------------------- reference notions
\* H intersects every conflict set of the collection
HitsEvery(H, cs) == \A k \in 1..Len(cs) : H \cap ToSet(cs[k]) /= {}

\* H hits every conflict set and no proper subset of H does
IsMinimalHittingSet(H, cs) ==
    /\ HitsEvery(H, cs)
    /\ \A G \in SUBSET H : G /= H => ~HitsEvery(G, cs)

MinimalHittingSets(cs) == {H \in SUBSET Components : IsMinimalHittingSet(H, cs)}

AllNonEmpty(cs) == \A k \in 1..Len(cs) : cs[k] /= <<>>

\* both engines have returned for the arguments of this run
BothReturned == pc = "returned" /\ bf.returned

\* ---------------------------------------------------------------- claims
\* C1: for a collection of at least one conflict set, all of them non-empty,
\* the minimal hitting sets of the tree search equal, by content, those of the
\* brute force, under each heuristic and every resolution of random's choices.
C1_CrossValidation ==
    (BothReturned /\ conflict_sets /= <<>> /\ AllNonEmpty(conflict_sets))
        => Content(minimal_hitting_sets) = Content(bf.minimal_hitting_sets)

C1_Witness ==
    /\ BothReturned /\ heuristic = "random"
    /\ Len(conflict_sets) >= 2 /\ AllNonEmpty(conflict_sets)
    /\ Len(hitting_sets) > Len(minimal_hitting_sets)
    /\ Len(bf.hitting_sets) > Len(bf.minimal_hitting_sets)
    /\ Len(minimal_hitting_sets) >= 2

\* C2: completeness of the tree search: every set of components that hits
\* every conflict set and has no proper subset that does is, by content, among
\* the returned minimal hitting sets, for every collection and heuristic.
C2_Completeness ==
    pc = "returned" => MinimalHittingSets(conflict_sets) \subseteq Content(minimal_hitting_sets)

C2_Witness ==
    /\ pc = "returned"
    /\ Cardinality(MinimalHittingSets(conflict_sets)) >= 2
    /\ \E H \in MinimalHittingSets(conflict_sets) : Cardinality(H) >= 2
    /\ heuristic = "most_frequent"

\* C3: hitting property: every returned minimal hitting set of either engine
\* intersects every conflict set of the input collection.
C3_HittingProperty ==
    /\ pc = "returned" =>
           \A i \in 1..Len(minimal_hitting_sets) :
               HitsEvery(ToSet(minimal_hitting_sets[i]), conflict_sets)
    /\ bf.returned =>
           \A i \in 1..Len(bf.minimal_hitting_sets) :
               HitsEvery(ToSet(bf.minimal_hitting_sets[i]), conflict_sets)

C3_Witness ==
    /\ BothReturned
    /\ Len(conflict_sets) >= 2
    /\ Len(minimal_hitting_sets) >= 2
    /\ Len(bf.minimal_hitting_sets) >= 2
    /\ \E i \in 1..Len(minimal_hitting_sets) : Len(minimal_hitting_sets[i]) >= 2

\* C4: minimality of diagnoses: no proper subset of a returned minimal hitting
\* set of either engine hits every conflict set of the input collection.
C4_Minimality ==
    /\ pc = "returned" =>
           \A i \in 1..Len(minimal_hitting_sets) :
               \A G \in SUBSET ToSet(minimal_hitting_sets[i]) :
                   G /= ToSet(minimal_hitting_sets[i]) => ~HitsEvery(G, conflict_sets)
    /\ bf.returned =>
           \A i \in 1..Len(bf.minimal_hitting_sets) :
               \A G \in SUBSET ToSet(bf.minimal_hitting_sets[i]) :
                   G /= ToSet(bf.minimal_hitting_sets[i]) => ~HitsEvery(G, conflict_sets)

\* the tree search recorded a hitting set that is not minimal, and the filter
\* removed it
C4_Witness ==
    /\ BothReturned
    /\ \E i \in 1..Len(hitting_sets) :
           ~IsMinimalHittingSet(ToSet(hitting_sets[i]), conflict_sets)
    /\ \E i \in 1..Len(minimal_hitting_sets) : Len(minimal_hitting_sets[i]) >= 2

\* C5: for the empty collection the tree search returns, under every
\* heuristic, exactly the list holding the single empty list.
C5_EmptyCollection ==
    (conflict_sets = <<>> /\ pc = "returned") => minimal_hitting_sets = << <<>> >>

C5_Witness == conflict_sets = <<>> /\ pc = "returned" /\ heuristic = "random"

\* C6 as claimed: for the empty collection no search node, not even the root,
\* is visited, and the returned count of visited nodes is 0.
C6_Original ==
    (conflict_sets = <<>> /\ pc = "returned") => visit_count = 0

\* C6 as amended: for the empty collection the tree search is invoked on the
\* root and on nothing else: the root is visited once, recorded as a solution
\* and not expanded, and the returned count of visited nodes is 1.
C6_RootOnly ==
    conflict_sets = <<>> =>
        /\ pc = "search" =>
               \/ stack = <<HSNode(<<>>, FALSE)>> /\ visit_count = 0 /\ hitting_sets = <<>>
               \/ stack = <<>> /\ visit_count = 1 /\ hitting_sets = << <<>> >>
        /\ pc = "returned" =>
               stack = <<>> /\ visit_count = 1 /\ hitting_sets = << <<>> >>

C6_Witness == conflict_sets = <<>> /\ pc = "returned" /\ visit_count = 1

\* C7 as claimed: for the empty collection the brute force returns the same
\* minimal hitting sets as the tree search, the list holding the empty list.
C7_Original ==
    (conflict_sets = <<>> /\ BothReturned) =>
        /\ Content(bf.minimal_hitting_sets) = Content(minimal_hitting_sets)
        /\ bf.minimal_hitting_sets = << <<>> >>

\* The state of a call with a heuristic name that is not registered: it raised
\* before any node was visited, and nothing is recorded or returned.
C8_NoSearch ==
    ~(heuristic \in HEURISTICS) =>
        /\ pc \in {"idle", "raised"}
        /\ stack = <<>> /\ visit_count = 0
        /\ hitting_sets = <<>> /\ minimal_hitting_sets = <<>>
        /\ ~earlier.returned

\* C8: a call with a heuristic name that is not registered raises before any
\* node is visited: nothing is recorded or returned, and the conflict sets
\* are left as they were.
C8_UnknownHeuristic ==
    [](C8_NoSearch) /\ [][conflict_sets' = conflict_sets]_vars

C8_Witness == ~(heuristic \in HEURISTICS) /\ pc = "raised" /\ Len(conflict_sets) >= 2

PinValue(src, out) == IF src[1] = "lit" THEN src[2] = 1 ELSE out[src[2]]

\* the gates of S behave as their kind says, the other gates behave in any
\* way, and the gate outputs agree with the observations
Consistent(c, out_obs, S, out) ==
    /\ \A o \in out_obs : out[o[1]] = (o[2] = 1)
    /\ \A i \in S :
           out[i] = Logic(c[i].kind, PinValue(c[i].in1, out), PinValue(c[i].in2, out))

\* the candidate S is unsatisfiable: with the members of S healthy and every
\* other gate faulty, no behaviour of the circuit fits the observations
CandidateUnsat(c, out_obs, S) ==
    ~\E out \in [1..Len(c) -> BOOLEAN] : Consistent(c, out_obs, S, out)

Candidates(c) == (SUBSET (1..Len(c))) \ {{}}

C11_NoSubsetReturned ==
    cs_pc = "returned" =>
        \A i, j \in 1..Len(minimal_conflicts) :
            i /= j => ~(ToSet(minimal_conflicts[i]) \subseteq ToSet(minimal_conflicts[j]))

\* two conflict sets are returned, and a recorded set that includes both of
\* them is not
C11_Witness ==
    /\ cs_pc = "returned"
    /\ \E i, j \in 1..Len(minimal_conflicts) :
           /\ i /= j
           /\ \E k \in 1..Len(recorded) :
                  /\ StrictSubset(ToSet(minimal_conflicts[i]), recorded[k])
                  /\ StrictSubset(ToSet(minimal_conflicts[j]), recorded[k])

\* 2^n
RECURSIVE Pow2(_)
Pow2(n) == IF n = 0 THEN 1 ELSE 2 * Pow2(n - 1)

\* the number of the s.check() calls made for the candidate S
TimesQueried(S) == Cardinality({k \in 1..Len(queried) : ToSet(queried[k]) = S})

\* C12: for a circuit of n components retrieve_conflict_sets makes exactly
\* 2^n - 1 checks: one for every non-empty subset of the components, taken
\* as the healthy candidate, and none for the empty subset.
C12_QueryCount ==
    /\ \A k \in 1..Len(queried) : queried[k] /= <<>>
    /\ \A i, j \in 1..Len(queried) :
           i < j => ToSet(queried[i]) /= ToSet(queried[j])
    /\ Len(queried) = queries
    /\ cs_pc = "returned" =>
           /\ queries = Pow2(Len(circuit)) - 1
           /\ TimesQueried({}) = 0
           /\ \A S \in Candidates(circuit) : TimesQueried(S) = 1
           /\ \A k \in 1..Len(queried) : ToSet(queried[k]) \in Candidates(circuit)

C12_Witness == cs_pc = "returned" /\ Len(circuit) = 3 /\ queries = 7

\* the observations fit the behaviour of the circuit with every component
\* healthy
AllHealthySat(c, out_obs) == ~CandidateUnsat(c, out_obs, 1..Len(c))

\* C13: retrieve_conflict_sets returns no conflict set if and only if the
\* observations are satisfiable together with the behaviour of the gates
\* when every component is assumed healthy.
C13_ZeroConflicts ==
    cs_pc = "returned" =>
        (Len(minimal_conflicts) = 0 <=> AllHealthySat(circuit, out_observations))

\* a circuit of two gates, one reading the other, whose observed outputs
\* all fit
C13_Witness ==
    /\ cs_pc = "returned"
    /\ Len(minimal_conflicts) = 0
    /\ Len(circuit) >= 2
    /\ Cardinality(out_observations) >= 2
    /\ \E i \in 1..Len(circuit) : Wires(circuit[i]) >= 1

\* the other side of C13: conflict sets are returned for observations that
\* do not fit
C13_WitnessConflict ==
    /\ cs_pc = "returned"
    /\ Len(minimal_conflicts) >= 1
    /\ ~AllHealthySat(circuit, out_observations)

\* C14: isolation of the checks: the one Solver is empty when a turn of the
\* loop begins, so at every s.check() it holds exactly the fault
\* assumptions, the observations and the flag values of the current
\* candidate, no flag value of an earlier candidate, and the verdict is the
\* one the candidate has on its own.
C14_QueryIsolation ==
    /\ cs_pc = "loop" => solver = {}
    /\ last_check.verdict /= "none" =>
           LET healthy == ToSet(last_check.healthy_combo)
           IN  /\ last_check.assertions =
                      ToSet(make_fault_assumptions(circuit))
                          \cup extract_observations(circuit, out_observations)
                          \cup {Eq(FlagVar(g), g \notin healthy) : g \in 1..Len(circuit)}
               /\ \A g \in 1..Len(circuit) :
                      Eq(FlagVar(g), g \in healthy) \notin last_check.assertions
               /\ last_check.verdict = "unsat"
                      <=> CandidateUnsat(circuit, out_observations, healthy)

\* a candidate found satisfiable after a candidate that was found
\* unsatisfiable and that has a gate of it faulty
C14_Witness ==
    /\ last_check.verdict = "sat"
    /\ \E k \in 1..Len(recorded) :
           recorded[k] \cap ToSet(last_check.healthy_combo) = {}

\* the positions of the input whose list is the first of its content and
\* has no other list of the input strictly inside it
KeptPositions(input) ==
    {i \in 1..Len(input) :
        /\ \A j \in 1..(i - 1) : ToSet(input[j]) /= ToSet(input[i])
        /\ \A j \in 1..Len(input) : ~StrictSubset(ToSet(input[j]), ToSet(input[i]))}

\* the k-th kept position, in increasing order
KeptPosition(input, k) ==
    CHOOSE i \in KeptPositions(input) :
        Cardinality({j \in KeptPositions(input) : j < i}) = k - 1

\* the result of the filter on the input: the input lists that are a strict
\* superset of no input list, one list per content, in the order of the first
\* occurrences
C15_Filtered ==
    pc = "filtered" =>
        /\ Len(minimal_hitting_sets) = Cardinality(KeptPositions(hitting_sets))
        /\ \A k \in 1..Len(minimal_hitting_sets) :
               minimal_hitting_sets[k] = hitting_sets[KeptPosition(hitting_sets, k)]
        /\ Content(minimal_hitting_sets) =
               {S \in Content(hitting_sets) :
                   \A T \in Content(hitting_sets) : ~StrictSubset(T, S)}
        /\ \A i, j \in 1..Len(minimal_hitting_sets) :
               i /= j => ToSet(minimal_hitting_sets[i]) /= ToSet(minimal_hitting_sets[j])

\* C15: for every collection of duplicate-free lists, get_minimal_hitting_sets
\* returns exactly the input sets that are a strict superset of no other
\* input set, each content once and in the order of first occurrence, and
\* the call leaves the input collection as it was.
C15_MinimalityFilter ==
    [](C15_Filtered) /\ [][pc' = "filtered" => hitting_sets' = hitting_sets]_vars

\* an input with a repeated content between two contents that are kept,
\* in the order of their first occurrence
C15_Witness ==
    /\ pc = "filtered"
    /\ Len(hitting_sets) = 3
    /\ ToSet(hitting_sets[1]) = ToSet(hitting_sets[3])
    /\ minimal_hitting_sets = <<hitting_sets[1], hitting_sets[2]>>

\* an input with a strict superset before the set it includes, and a set
\* listed in two orders of its members
C15_WitnessSuperset ==
    /\ pc = "filtered"
    /\ Len(hitting_sets) = 2
    /\ StrictSubset(ToSet(hitting_sets[2]), ToSet(hitting_sets[1]))
    /\ minimal_hitting_sets = <<hitting_sets[2]>>

C15_WitnessOrder ==
    /\ pc = "filtered"
    /\ Len(hitting_sets) = 2
    /\ hitting_sets[1] /= hitting_sets[2]
    /\ ToSet(hitting_sets[1]) = ToSet(hitting_sets[2])
    /\ minimal_hitting_sets = <<hitting_sets[1]>>

\* C16: two collections of the same content (the same sets, in any order,
\* with any multiplicity, their members in any order) give results of the
\* same content.
C16_ContentDeterminism ==
    (pc = "filtered" /\ earlier.returned
         /\ Content(earlier.hitting_sets) = Content(hitting_sets))
        => Content(earlier.minimal_hitting_sets) = Content(minimal_hitting_sets)

\* the second collection lists a strict superset before its subset, and the
\* first one after it, with the members in another order
C16_Witness ==
    /\ pc = "filtered" /\ earlier.returned
    /\ \E i \in 1..Len(hitting_sets) :
           \A j \in 1..Len(earlier.hitting_sets) :
               hitting_sets[i] /= earlier.hitting_sets[j]
    /\ \E i, j \in 1..Len(hitting_sets) :
           i < j /\ StrictSubset(ToSet(hitting_sets[j]), ToSet(hitting_sets[i]))
    /\ \E i, j \in 1..Len(earlier.hitting_sets) :
           i < j /\ StrictSubset(ToSet(earlier.hitting_sets[i]),
                                 ToSet(earlier.hitting_sets[j]))

\* C17: on every collection of sets, the filtering step of
\* retrieve_conflict_sets and get_minimal_hitting_sets keep the same set of
\* sets.
C17_SameFilter ==
    (pc = "filtered" /\ cs_pc = "returned" /\ recorded = SetsOf(hitting_sets))
        => Content(minimal_conflicts) = Content(minimal_hitting_sets)

\* the other side of the content: a collection that lists a set more times
\* than the earlier one
C16_WitnessMultiplicity ==
    /\ pc = "filtered" /\ earlier.returned
    /\ Len(hitting_sets) > Len(earlier.hitting_sets)
    /\ Len(minimal_hitting_sets) >= 2

\* a collection with a repeated set, where the two results differ as lists,
\* and a strict superset, which both drop
C17_Witness ==
    /\ pc = "filtered" /\ cs_pc = "returned" /\ recorded = SetsOf(hitting_sets)
    /\ Len(minimal_conflicts) > Len(minimal_hitting_sets)
    /\ Len(recorded) > Len(minimal_conflicts)

\* assuming the components outside H healthy and those of H faulty fits the
\* observations, and for no proper subset of H does it
IsMinimalExplanation(c, out_obs, H) ==
    /\ H \subseteq 1..Len(c)
    /\ ~CandidateUnsat(c, out_obs, (1..Len(c)) \ H)
    /\ \A G \in SUBSET H : G /= H => CandidateUnsat(c, out_obs, (1..Len(c)) \ G)

C18_WitnessTwo ==
    /\ cs_pc = "returned" /\ conflict_sets = minimal_conflicts
    /\ pc = "returned" /\ bf.returned
    /\ \E k \in 1..Len(conflict_sets) : Len(conflict_sets[k]) >= 2
    /\ Len(minimal_hitting_sets) >= 2

\* C19 as claimed: during one search, every solution appended to the list of
\* recorded solutions is neither a superset of nor equal, as a set, to a
\* solution recorded before it.
C19_Original ==
    \A i, j \in 1..Len(hitting_sets) :
        i < j => ~(ToSet(hitting_sets[i]) \subseteq ToSet(hitting_sets[j]))

\* the sums of one member of each of two sets of numbers
SumSets(A, B) == {a + b : a \in A, b \in B}

\* the numbers of nodes the tree without pruning can have below and at a
\* path: a node with no uncovered conflict is a leaf, and any other node has
\* the children made from the conflict the heuristic selects (one number per
\* resolution of the heuristic's choices)
RECURSIVE UnprunedSizes(_, _, _)
RECURSIVE ChildrenSizes(_, _, _)
UnprunedSizes(path_labels, conflicts, name) ==
    LET uncovered_conflicts == get_uncovered_conflicts(path_labels, conflicts)
    IN  IF uncovered_conflicts = <<>> THEN {1}
        ELSE UNION {{1 + below :
                        below \in ChildrenSizes(
                            create_children(HSNode(path_labels, FALSE), selected_conflict),
                            conflicts, name)} :
                     selected_conflict \in heuristic_func(name, uncovered_conflicts)}

ChildrenSizes(children, conflicts, name) ==
    IF children = <<>> THEN {0}
    ELSE SumSets(UnprunedSizes(Head(children).path_labels, conflicts, name),
                 ChildrenSizes(Tail(children), conflicts, name))

C20_WitnessReturned ==
    /\ pc = "returned"
    /\ visit_count >= 6
    /\ \E i \in 1..Len(hitting_sets) : Len(hitting_sets[i]) >= 2

\* the paths of the ancestors of a node: the proper prefixes of its path
AncestorPaths(path_labels) ==
    {SubSeq(path_labels, 1, k) : k \in 0..(Len(path_labels) - 1)}

\* C21: the search starts at a root with the empty path and the flag unset;
\* a visited node with no uncovered conflict is marked as solution, its path
\* is recorded, once, and it gets no children; any other visited node is
\* neither marked nor recorded; and no node visited or waiting has an
\* ancestor whose path hits every conflict set.
C21_SolutionNodes ==
    /\ (pc = "search" /\ visit_count = 0) => stack = <<HSNode(<<>>, FALSE)>>
    /\ (pc = "search" /\ visit_count = 1) => last_visit.node.path_labels = <<>>
    /\ (pc \in {"search", "returned", "raised"} /\ last_visit.entered) =>
           LET node == last_visit.node
           IN  /\ node.is_solution <=> HitsEvery(ToSet(node.path_labels), conflict_sets)
               /\ node.is_solution =>
                      /\ last_visit.children = <<>>
                      /\ hitting_sets /= <<>>
                      /\ hitting_sets[Len(hitting_sets)] = node.path_labels
               /\ ~node.is_solution =>
                      \A i \in 1..Len(hitting_sets) : hitting_sets[i] /= node.path_labels
               /\ \A ancestor \in AncestorPaths(node.path_labels) :
                      ~HitsEvery(ToSet(ancestor), conflict_sets)
    /\ \A i, j \in 1..Len(hitting_sets) : i /= j => hitting_sets[i] /= hitting_sets[j]
    /\ \A k \in 1..Len(stack) :
           /\ ~stack[k].is_solution
           /\ \A ancestor \in AncestorPaths(stack[k].path_labels) :
                  ~HitsEvery(ToSet(ancestor), conflict_sets)

\* a solution node two levels below the root has just been visited, after
\* another solution
C21_Witness ==
    /\ pc = "search"
    /\ last_visit.entered /\ last_visit.node.is_solution
    /\ Len(last_visit.node.path_labels) >= 2
    /\ Len(hitting_sets) >= 2
    /\ stack /= <<>>

\* C22: the expansion of a node that is no solution takes one of the node's
\* uncovered conflicts and creates one child per component of it that is not
\* in the node's path, in the conflict's order, each with the node's path
\* followed by that component and with the flag unset; the children are the
\* next nodes of the recursion, the node's path is the one it had, and no
\* path holds a component twice.
C22_Expansion ==
    /\ (pc = "search" /\ last_visit.entered /\ ~last_visit.node.is_solution) =>
           LET path == last_visit.node.path_labels
               selected == last_visit.selected_conflict
               children == last_visit.children
               fresh == SelectSeq(selected, LAMBDA component : component \notin ToSet(path))
           IN  /\ \E k \in 1..Len(conflict_sets) :
                      conflict_sets[k] = selected /\ ToSet(selected) \cap ToSet(path) = {}
               /\ Len(children) = Cardinality(ToSet(selected) \ ToSet(path))
               /\ Len(children) = Len(fresh)
               /\ \A k \in 1..Len(children) :
                      /\ children[k].path_labels = Append(path, fresh[k])
                      /\ children[k].is_solution = FALSE
               /\ Len(stack) >= Len(children)
               /\ SubSeq(stack, 1, Len(children)) = children
               /\ \A ancestor \in AncestorPaths(path) :
                      \A k \in 1..Len(children) :
                          SubSeq(children[k].path_labels, 1, Len(ancestor)) = ancestor
    /\ \A k \in 1..Len(stack) : IsDupFree(stack[k].path_labels)
    /\ \A i \in 1..Len(hitting_sets) : IsDupFree(hitting_sets[i])
    /\ IsDupFree(last_visit.node.path_labels)

\* a node below the root has just been expanded into two children or more
C22_Witness ==
    /\ pc = "search" /\ last_visit.entered
    /\ Len(last_visit.node.path_labels) >= 1
    /\ Len(last_visit.children) >= 2
    /\ Len(stack) > Len(last_visit.children)

\* C23: the count that run_hitting_set_algorithm returns is the number of
\* calls of hs_tree_recursive, which is 1 for the root plus the number of
\* children created; during the search every created child has been counted
\* once or is still waiting, whether it is a solution, childless or expanded.
C23_NodesVisited ==
    /\ pc = "search" => visit_count + Len(stack) = 1 + children_created
    /\ pc = "returned" => visit_count = 1 + children_created
    /\ (pc = "search" /\ last_visit.entered) => visit_count >= 1

\* a returned search that created children and recorded solutions
C23_Witness ==
    /\ pc = "returned"
    /\ children_created >= 3
    /\ Len(hitting_sets) >= 2

\* a returned search whose branches ended at nodes without children
C23_WitnessChildless ==
    /\ pc = "returned"
    /\ children_created >= 2
    /\ \E k \in 1..Len(conflict_sets) : conflict_sets[k] = <<>>

\* the conflicts of the collection that share no member with the path, in
\* the collection's order
UncoveredBy(path_labels) ==
    SelectSeq(conflict_sets, LAMBDA conflict : ToSet(conflict) \cap ToSet(path_labels) = {})

\* the latest call of hs_tree_recursive asked the heuristic for a conflict
Selected ==
    /\ pc = "search"
    /\ last_visit.entered
    /\ ~last_visit.node.is_solution

\* C24: under the heuristic smallest the selected conflict is a member of the
\* non-empty list of uncovered conflicts, no member has fewer components, and
\* every member before its first position has more.
C24_Smallest ==
    (Selected /\ heuristic = "smallest") =>
        LET uncovered == UncoveredBy(last_visit.node.path_labels)
            selected == last_visit.selected_conflict
        IN  /\ uncovered /= <<>>
            /\ \E i \in 1..Len(uncovered) :
                   /\ uncovered[i] = selected
                   /\ \A j \in 1..Len(uncovered) : Len(selected) <= Len(uncovered[j])
                   /\ \A j \in 1..(i - 1) : Len(selected) < Len(uncovered[j])

\* two different uncovered conflicts of minimal size: the first was selected
C24_Witness ==
    /\ Selected /\ heuristic = "smallest"
    /\ LET uncovered == UncoveredBy(last_visit.node.path_labels)
       IN  /\ Len(uncovered) >= 2
           /\ uncovered[1] = last_visit.selected_conflict
           /\ \E j \in 2..Len(uncovered) :
                  /\ Len(uncovered[j]) = Len(uncovered[1])
                  /\ uncovered[j] /= uncovered[1]

\* the selected conflict is not the first of the list, which is larger
C24_WitnessLater ==
    /\ Selected /\ heuristic = "smallest"
    /\ LET uncovered == UncoveredBy(last_visit.node.path_labels)
       IN  /\ Len(uncovered) >= 2
           /\ Len(uncovered[1]) > Len(last_visit.selected_conflict)

\* the number of the listed conflicts that contain the component
Occurrences(conflicts, component) ==
    Cardinality({k \in 1..Len(conflicts) : component \in ToSet(conflicts[k])})

\* the components that occur in the most conflicts of the list
MostFrequent(conflicts) ==
    LET named == UNION {ToSet(conflicts[k]) : k \in 1..Len(conflicts)}
    IN  {component \in named :
            \A other \in named :
                Occurrences(conflicts, other) <= Occurrences(conflicts, component)}

\* C25: under the heuristic most_frequent, for a non-empty list of non-empty
\* uncovered conflicts, the selected conflict is the first member of the
\* list that contains a component of maximal number of occurrences, whether
\* one component or several reach the maximum.
C25_MostFrequent ==
    (Selected /\ heuristic = "most_frequent") =>
        LET uncovered == UncoveredBy(last_visit.node.path_labels)
            selected == last_visit.selected_conflict
        IN  (uncovered /= <<>> /\ \A k \in 1..Len(uncovered) : uncovered[k] /= <<>>) =>
                \E i \in 1..Len(uncovered) :
                    /\ uncovered[i] = selected
                    /\ ToSet(uncovered[i]) \cap MostFrequent(uncovered) /= {}
                    /\ \A j \in 1..(i - 1) :
                           ToSet(uncovered[j]) \cap MostFrequent(uncovered) = {}

\* two components in different conflicts tie for the maximum
C25_Witness ==
    /\ Selected /\ heuristic = "most_frequent"
    /\ LET uncovered == UncoveredBy(last_visit.node.path_labels)
       IN  /\ \A k \in 1..Len(uncovered) : uncovered[k] /= <<>>
           /\ Len(uncovered) >= 2
           /\ uncovered[1] = last_visit.selected_conflict
           /\ \E j \in 2..Len(uncovered) :
                  /\ ToSet(uncovered[j]) \cap MostFrequent(uncovered) /= {}
                  /\ ToSet(uncovered[j]) \cap ToSet(uncovered[1]) = {}

\* the selected conflict is not the first of the list
C25_WitnessLater ==
    /\ Selected /\ heuristic = "most_frequent"
    /\ LET uncovered == UncoveredBy(last_visit.node.path_labels)
       IN  /\ \A k \in 1..Len(uncovered) : uncovered[k] /= <<>>
           /\ Len(uncovered) >= 2
           /\ ToSet(uncovered[1]) \cap MostFrequent(uncovered) = {}

\* no path of a waiting, visited or created node is longer than the
\* collection of conflict sets
C26_PathBound ==
    /\ \A k \in 1..Len(stack) : Len(stack[k].path_labels) <= Len(conflict_sets)
    /\ Len(last_visit.node.path_labels) <= Len(conflict_sets)
    /\ \A k \in 1..Len(last_visit.children) :
           Len(last_visit.children[k].path_labels) <= Len(conflict_sets)
    /\ \A i \in 1..Len(hitting_sets) : Len(hitting_sets[i]) <= Len(conflict_sets)

\* the latest call ended its branch: it recorded a solution or made no child
BranchEnded ==
    last_visit.entered /\ (last_visit.node.is_solution \/ last_visit.children = <<>>)

Universe(conflicts) == UNION {ToSet(conflicts[k]) : k \in 1..Len(conflicts)}

\* C27: the list of all hitting sets that run_brute_force_algorithm returns
\* holds the non-empty subsets of the universe that share a member with
\* every conflict set and nothing else, each subset at one position and
\* with each member once, and the sizes never decrease along the list.
C27_BruteForce ==
    bf.returned =>
        LET all_hitting_sets == bf.hitting_sets
            expected == {S \in SUBSET Universe(conflict_sets) :
                            /\ S /= {}
                            /\ \A k \in 1..Len(conflict_sets) :
                                   S \cap ToSet(conflict_sets[k]) /= {}}
        IN  /\ {ToSet(all_hitting_sets[i]) : i \in 1..Len(all_hitting_sets)} = expected
            /\ Len(all_hitting_sets) = Cardinality(expected)
            /\ \A i \in 1..Len(all_hitting_sets) :
                   Len(all_hitting_sets[i]) = Cardinality(ToSet(all_hitting_sets[i]))
            /\ \A i \in 1..Len(all_hitting_sets) :
                   \A j \in (i + 1)..Len(all_hitting_sets) :
                       Len(all_hitting_sets[i]) <= Len(all_hitting_sets[j])

\* a returned list with sets of three sizes, from a universe of which some
\* non-empty subset hits no conflict set
C27_Witness ==
    /\ bf.returned
    /\ \E i, j, k \in 1..Len(bf.hitting_sets) :
           /\ Len(bf.hitting_sets[i]) < Len(bf.hitting_sets[j])
           /\ Len(bf.hitting_sets[j]) < Len(bf.hitting_sets[k])
    /\ Len(bf.hitting_sets) + 1 < Cardinality(SUBSET Universe(conflict_sets))

\* C28: when the children are explored as independent branches in any order,
\* with one append to the shared list at a time and a pruning loop that may
\* read the list as it was before other branches recorded their solutions,
\* the minimal hitting sets after the filter are, as a set of sets, those of
\* the sequential depth-first run on the same arguments.
C28_ConcurrentContent ==
    pc = "joined" =>
        Content(minimal_hitting_sets) = Content(earlier.minimal_hitting_sets)

\* the branches recorded a strict superset before its subset, which the
\* sequential run recorded the other way round, and two sets are minimal
C28_Witness ==
    /\ pc = "joined"
    /\ hitting_sets /= earlier.hitting_sets
    /\ Len(minimal_hitting_sets) >= 2
    /\ \E i \in 1..Len(hitting_sets) :
           \E j \in (i + 1)..Len(hitting_sets) :
               StrictSubset(ToSet(hitting_sets[j]), ToSet(hitting_sets[i]))

\* the loop over the candidates has ended and the filter has not begun
LoopEnded == cs_pc = "loop" /\ candidates = <<>>

\* C29: a candidate that includes a candidate found unsatisfiable is
\* unsatisfiable too (the smaller one was checked before it, the sizes
\* increasing), and when the loop has ended the candidates recorded are
\* closed under supersets within the gates of the circuit.
C29_Monotonicity ==
    /\ last_check.verdict = "sat" =>
           \A k \in 1..Len(recorded) :
               ~(recorded[k] \subseteq ToSet(last_check.healthy_combo))
    /\ LoopEnded =>
           \A k \in 1..Len(recorded) :
               \A candidate \in SUBSET (1..Len(circuit)) :
                   recorded[k] \subseteq candidate =>
                       \E j \in 1..Len(recorded) : recorded[j] = candidate

\* some candidate was satisfiable, and a recorded candidate has a strict
\* superset recorded after it
C29_Witness ==
    /\ LoopEnded
    /\ Len(recorded) < Len(queried)
    /\ \E k \in 1..Len(recorded) :
           \E j \in (k + 1)..Len(recorded) : StrictSubset(recorded[k], recorded[j])

\* the other modelling of a candidate: the flags of its members forced
\* false and the flags of the other gates left to the solver
candidate_assertions_unconstrained(c, out_obs, healthy_combo) ==
    ToSet(make_fault_assumptions(c)) \cup extract_observations(c, out_obs)
        \cup {Eq(FlagVar(g), FALSE) : g \in ToSet(healthy_combo)}

\* the candidates that are unsatisfiable under the other modelling, as the
\* loop would record them
RecordedUnconstrained ==
    SetsOf(SelectSeq(powerset(all_gates(circuit)),
               LAMBDA healthy_combo :
                   check(circuit,
                         candidate_assertions_unconstrained(
                             circuit, out_observations, healthy_combo)) = "unsat"))

\* C30: for every candidate the verdict of the check, made with the flag of
\* every gate outside the candidate forced true, is the verdict the solver
\* gives with those flags left unconstrained: when the loop has ended, every
\* candidate has been checked and the candidates recorded are, one by one,
\* the candidates unsatisfiable under the other modelling, so the filter
\* gives both modellings the same list of minimal conflict sets.
C30_Unconstrained ==
    LoopEnded =>
        LET unconstrained == RecordedUnconstrained
        IN  /\ queried = powerset(all_gates(circuit))
            /\ unconstrained = recorded
            /\ minimal_conflict_filter(unconstrained) = minimal_conflict_filter(recorded)

\* a candidate with gates outside it was found unsatisfiable, another one
\* satisfiable, and the filter removes a recorded candidate
C30_Witness ==
    /\ LoopEnded
    /\ Len(circuit) >= 2
    /\ Len(recorded) < Len(queried)
    /\ \E k \in 1..Len(recorded) : Cardinality(recorded[k]) < Len(circuit)
    /\ Len(minimal_conflict_filter(recorded)) < Len(recorded)

====
